---------------------------- MODULE Spec2Model ----------------------------
(***************************************************************************)
(* lsst.coadd.utils.Coadd: coaddition by weighted addition.                *)
(*                                                                         *)
(* Pixel values are floats in the code; here they are exact rationals      *)
(* [n, d] with d > 0, extended by the three IEEE non-finite values          *)
(* d = 0: n = 0 is NaN, n = 1 is +inf, n = -1 is -inf.  Rounding is not     *)
(* modelled.  Mask pixels are integers and are combined bit by bit.        *)
(* The variance plane of the coadd itself is not part of the state: the    *)
(* accumulator the specification describes is sum, weightMap and mask.     *)
(***************************************************************************)
EXTENDS Integers, Sequences, FiniteSets, Bags, TLC

VARIABLES
    badPixelMask,   \* self._badPixelMask
    emptyStatsNaN,  \* the afw build: makeStatistics on no valid pixel gives NaN (TRUE) or raises (FALSE)
    coadd,          \* self._coadd's masked image: [image, mask] over the coadd bbox
    weightMap,      \* self._weightMap
    exposure,       \* the caller's exposure object, as it is after the last addExposure
    result,         \* the last call made on the Coadd and what it returned
    added,          \* the addExposure calls made so far (a bag of call records)
    interpreterLock,\* the build: a library call runs under the interpreter's lock (TRUE) or without it
    threads         \* the threads calling the Coadd at once: where each is and its local variables

vars == <<badPixelMask, emptyStatsNaN, coadd, weightMap, exposure, result, added,
          interpreterLock, threads>>

\* Number of addExposure calls a behaviour makes at most.
MaxAdds == 2

-----------------------------------------------------------------------------
(* Float arithmetic *)

Abs(i) == IF i < 0 THEN -i ELSE i

Sign(i) == IF i < 0 THEN -1 ELSE IF i > 0 THEN 1 ELSE 0

RECURSIVE GCD(_, _)
GCD(a, b) == IF b = 0 THEN a ELSE GCD(b, a % b)

NaN == [n |-> 0, d |-> 0]

IsNaN(a) == a.d = 0 /\ a.n = 0

IsFinite(a) == a.d > 0

\* The float n/d, d # 0, in lowest terms with a positive denominator.
Norm(n, d) ==
    LET g == GCD(Abs(n), Abs(d))
    IN  [n |-> Sign(d) * (n \div g), d |-> Abs(d) \div g]

Flt(i) == [n |-> i, d |-> 1]

Zero == Flt(0)

RAdd(a, b) ==
    IF IsNaN(a) \/ IsNaN(b) THEN NaN
    ELSE IF a.d = 0 /\ b.d = 0 THEN (IF a.n = b.n THEN a ELSE NaN)
    ELSE IF a.d = 0 THEN a
    ELSE IF b.d = 0 THEN b
    ELSE Norm(a.n * b.d + b.n * a.d, a.d * b.d)

RMul(a, b) ==
    IF IsNaN(a) \/ IsNaN(b) THEN NaN
    ELSE IF a.d = 0 \/ b.d = 0
         THEN (IF a.n * b.n = 0 THEN NaN ELSE [n |-> Sign(a.n * b.n), d |-> 0])
    ELSE Norm(a.n * b.n, a.d * b.d)

RNeg(a) == [n |-> -a.n, d |-> a.d]

RSub(a, b) == RAdd(a, RNeg(b))

\* IEEE division, as the C++ image operators do it: x/0 is +-inf, 0/0 is NaN.
RDiv(a, b) ==
    IF IsNaN(a) \/ IsNaN(b) THEN NaN
    ELSE IF b.d = 0 THEN (IF a.d = 0 THEN NaN ELSE Zero)
    ELSE IF a.d = 0 THEN (IF b.n < 0 THEN RNeg(a) ELSE a)
    ELSE IF b.n = 0 THEN [n |-> Sign(a.n), d |-> 0]
    ELSE Norm(a.n * b.d, a.d * b.n)

\* a <= b on finite floats
RLeq(a, b) == a.n * b.d <= b.n * a.d

RPositive(a) == a.n > 0

RECURSIVE Pow10(_)
Pow10(k) == IF k = 0 THEN 1 ELSE 10 * Pow10(k - 1)

-----------------------------------------------------------------------------
(* Mask pixels *)

RECURSIVE BitAnd(_, _)
BitAnd(a, b) ==
    IF a = 0 \/ b = 0 THEN 0
    ELSE (a % 2) * (b % 2) + 2 * BitAnd(a \div 2, b \div 2)

BitOr(a, b) == a + b - BitAnd(a, b)

BitClear(a, b) == a - BitAnd(a, b)

\* afw's default mask planes: the bit number of each plane used here.
PlaneNumber(name) ==
    CASE name = "BAD" -> 0
      [] name = "EDGE" -> 4
      [] name = "DETECTED" -> 5

RECURSIVE Pow2(_)
Pow2(k) == IF k = 0 THEN 1 ELSE 2 * Pow2(k - 1)

getPlaneBitMask(name) == Pow2(PlaneNumber(name))

RECURSIVE makeBitMask(_)
makeBitMask(names) ==
    IF names = {} THEN 0
    ELSE LET nm == CHOOSE x \in names : TRUE
         IN  BitOr(getPlaneBitMask(nm), makeBitMask(names \ {nm}))

EdgeMask == getPlaneBitMask("EDGE")

\* The bits kept for coverage and edge tracking, never copied from an input.
ReservedMask == EdgeMask

-----------------------------------------------------------------------------
(* Boxes and pixels, in parent coordinates *)

Box(x, y, w, h) == [minX |-> x, minY |-> y, width |-> w, height |-> h]

EmptyBox == Box(0, 0, 0, 0)

IsEmptyBox(b) == b.width = 0 \/ b.height = 0

PixelsOf(b) ==
    {<<x, y>> : x \in b.minX .. (b.minX + b.width - 1),
                y \in b.minY .. (b.minY + b.height - 1)}

Max(a, b) == IF a >= b THEN a ELSE b

Min(a, b) == IF a <= b THEN a ELSE b

\* Box2I.clip: the intersection, the empty box when there is none.
Clip(a, b) ==
    LET x0 == Max(a.minX, b.minX)
        y0 == Max(a.minY, b.minY)
        x1 == Min(a.minX + a.width, b.minX + b.width)
        y1 == Min(a.minY + a.height, b.minY + b.height)
    IN  IF x1 <= x0 \/ y1 <= y0 THEN EmptyBox ELSE Box(x0, y0, x1 - x0, y1 - y0)


-----------------------------------------------------------------------------
(* The coadd's construction arguments *)

\* bbox argument of Coadd.__init__: a 3 x 3 grid at the parent origin.
CoaddBBox == Box(0, 0, 3, 3)

CoaddPixels == PixelsOf(CoaddBBox)

\* coaddZeroPoint argument of Coadd.__init__ (mag).
CoaddZeroPoint == 5

\* Coadd.__init__: coddFluxMag0 = 10**(0.4 * coaddZeroPoint)
CoaddFluxMag0 == Pow10((2 * CoaddZeroPoint) \div 5)

\* badMaskPlanes arguments the tests construct Coadds with.
BadMaskPlanesChoices == {{}, {"EDGE", "BAD"}}

\* StatisticsControl settings made by Coadd.__init__.
NumSigmaClip == 3

NumIter == 2

-----------------------------------------------------------------------------
(* Exposures the caller passes in *)

\* An exposure is described by its footprint, a background pixel (value,
\* variance, mask 0), its calibration, and the pixels that differ:
\* flagged = "none", "one" (the pixel at maxX, minY) or "all".
Desc(box, val, var, flux, flagged, bits, fval, fvar) ==
    [bbox |-> box, value |-> val, variance |-> var, fluxMag0 |-> flux,
     flagged |-> flagged, flagBits |-> bits, flagValue |-> fval, flagVariance |-> fvar]

FullBox == CoaddBBox

\* two columns wide, only the right one inside the coadd: covers the coadd's left column
LeftBox == Box(-1, 0, 2, 3)

\* entirely outside the coadd
OffBox == Box(5, 0, 2, 3)

Plain(box, val, var, flux) == Desc(box, val, var, flux, "none", 0, val, var)

BadBit == getPlaneBitMask("BAD")

DetectedBit == getPlaneBitMask("DETECTED")

Descriptors ==
    { Plain(FullBox, 10, 4, 100),          \* scenario exposure 1
      Plain(LeftBox, 20, 4, 100),          \* scenario exposure 2
      Plain(FullBox, 10, 1, 50),           \* calibrated differently: scale factor 2
      Desc(FullBox, 10, 4, 50, "one", BadBit, 1000, 16),
      Desc(FullBox, 20, 4, 100, "one", BitOr(EdgeMask, DetectedBit), 20, 4),
      Desc(FullBox, 10, 4, 100, "all", BadBit, 10, 4),
      Plain(FullBox, 10, 0, 100),          \* zero variance
      Plain(FullBox, 10, -4, 100),         \* negative variance
      Plain(OffBox, 10, 4, 100) }

WeightFactors == {1, 2}

FlaggedPixels(d) ==
    CASE d.flagged = "none" -> {}
      [] d.flagged = "one" -> {<<d.bbox.minX + d.bbox.width - 1, d.bbox.minY>>}
      [] d.flagged = "all" -> PixelsOf(d.bbox)

\* The exposure object the caller holds for descriptor d.
BuildExposure(d) ==
    LET px == PixelsOf(d.bbox)
        fl == FlaggedPixels(d)
    IN  [id       |-> d,
         bbox     |-> d.bbox,
         image    |-> [p \in px |-> Flt(IF p \in fl THEN d.flagValue ELSE d.value)],
         variance |-> [p \in px |-> Flt(IF p \in fl THEN d.flagVariance ELSE d.variance)],
         mask     |-> [p \in px |-> IF p \in fl THEN d.flagBits ELSE 0],
         fluxMag0 |-> Flt(d.fluxMag0)]

NoExposure == [id |-> "none"]

-----------------------------------------------------------------------------
(* afw operations addExposure and getCoadd use *)

\* Calib.getFlux(mag) = fluxMag0 * 10^(-0.4 mag), for mag a multiple of 5/2.
getFlux(fluxMag0, mag) == RDiv(fluxMag0, Flt(Pow10((2 * mag) \div 5)))

getMaskedImage(exp) ==
    [bbox |-> exp.bbox, image |-> exp.image, variance |-> exp.variance, mask |-> exp.mask]

\* maskedImage.Factory(maskedImage, deep): a new masked image; with deep = False
\* it shares its pixels with the original, so writes to it are writes to both.
Factory(maskedImage, deep) == [mi |-> maskedImage, aliased |-> ~deep]

\* MaskedImage *= scalar: the image by the factor, the variance by its square.
ScaleMaskedImage(mi, s) ==
    [mi EXCEPT !.image    = [p \in DOMAIN mi.image |-> RMul(mi.image[p], s)],
               !.variance = [p \in DOMAIN mi.variance |-> RMul(mi.variance[p], RMul(s, s))]]

\* How often each value occurs among the samples f[p], p in S.
Histogram(f, S) ==
    LET values == {f[p] : p \in S}
    IN  [v \in values |-> Cardinality({p \in S : f[p] = v})]

\* The sum of g[v] over the samples, each value v taken as often as it occurs.
RECURSIVE RSumOver(_, _, _)
RSumOver(g, h, V) ==
    IF V = {} THEN Zero
    ELSE LET v == CHOOSE x \in V : TRUE
         IN  RAdd(RMul(Flt(h[v]), g[v]), RSumOver(g, h, V \ {v}))

Sq(a) == RMul(a, a)

\* The mean of the samples counted in h, n of them.
Mean(h, n) == RDiv(RSumOver([v \in DOMAIN h |-> v], h, DOMAIN h), Flt(n))

\* The sample variance of the samples counted in h about their mean m.
SampleVariance(h, n, m) ==
    IF n < 2 THEN Zero
    ELSE RDiv(RSumOver([v \in DOMAIN h |-> Sq(RSub(v, m))], h, DOMAIN h), Flt(n - 1))

\* One clipping pass: the samples within NumSigmaClip standard deviations of the mean.
ClipStep(f, S) ==
    LET h     == Histogram(f, S)
        n     == Cardinality(S)
        m     == Mean(h, n)
        limit == RMul(Flt(NumSigmaClip * NumSigmaClip), SampleVariance(h, n, m))
        near  == {v \in DOMAIN h : RLeq(Sq(RSub(v, m)), limit)}
    IN  {p \in S : f[p] \in near}

RECURSIVE ClipIter(_, _, _)
ClipIter(f, S, k) == IF k = 0 \/ S = {} THEN S ELSE ClipIter(f, ClipStep(f, S), k - 1)

\* makeStatistics(variance, mask, MEANCLIP, statsControl).getResult(MEANCLIP):
\* the clipped mean of the pixels whose mask does not intersect andMask.
\* With no such pixel the result is NaN or an exception, as the afw build has it.
makeStatistics(image, mask, andMask, nanWhenEmpty) ==
    LET valid == {p \in DOMAIN image : BitAnd(mask[p], andMask) = 0}
        kept  == ClipIter(image, valid, NumIter)
    IN  IF kept = {}
        THEN [raised |-> ~nanWhenEmpty, value |-> NaN]
        ELSE [raised |-> FALSE, value |-> Mean(Histogram(image, kept), Cardinality(kept))]

\* utilsLib.addToCoadd(coadd, weightMap, maskedImage, badPixelMask, weight)
addToCoadd(co, wm, mi, bpm, weight) ==
    LET overlapBBox == Clip(CoaddBBox, mi.bbox)
        overlap == PixelsOf(overlapBBox)
        good(p) == BitAnd(mi.mask[p], bpm) = 0
    IN  [coadd |->
            [image |-> [p \in CoaddPixels |->
                          IF p \in overlap /\ good(p)
                          THEN RAdd(co.image[p], RMul(mi.image[p], weight))
                          ELSE co.image[p]],
             mask  |-> [p \in CoaddPixels |->
                          IF p \in overlap
                          THEN BitOr(co.mask[p], BitClear(mi.mask[p], ReservedMask))
                          ELSE co.mask[p]]],
         weightMap |-> [p \in CoaddPixels |->
                          IF p \in overlap /\ good(p)
                          THEN RAdd(wm[p], weight)
                          ELSE wm[p]],
         overlapBBox |-> overlapBBox]

\* utilsLib.setCoaddEdgeBits(coaddMask, weightMap)
setCoaddEdgeBits(mask, wm) ==
    [p \in DOMAIN mask |-> IF wm[p] = Zero THEN BitOr(mask[p], EdgeMask) ELSE mask[p]]

\* MaskedImage /= Image
DivideMaskedImage(mi, wm) ==
    [mi EXCEPT !.image = [p \in DOMAIN mi.image |-> RDiv(mi.image[p], wm[p])]]

-----------------------------------------------------------------------------
(* Coadd *)

\* The Coadd object.
Self ==
    [coadd |-> coadd, weightMap |-> weightMap,
     badPixelMask |-> badPixelMask, emptyStatsNaN |-> emptyStatsNaN]

\* Coadd.__init__: an empty coadd and weight map.
NewCoadd(badMaskPlanes, nanWhenEmpty) ==
    [coadd |-> [image |-> [p \in CoaddPixels |-> Zero], mask |-> [p \in CoaddPixels |-> 0]],
     weightMap |-> [p \in CoaddPixels |-> Zero],
     badPixelMask |-> makeBitMask(badMaskPlanes),
     emptyStatsNaN |-> nanWhenEmpty]

\* A bug: the flux itself taken as the scale factor.
ScaleFacInverted(exp) == getFlux(exp.fluxMag0, CoaddZeroPoint)

\* addExposure: scaleFac = 1.0 / exposure.getCalib().getFlux(self._coaddZeroPoint)
ScaleFac(exp) == RDiv(Flt(1), getFlux(exp.fluxMag0, CoaddZeroPoint))

\* A bug: a shallow copy, so that normalizing it scales the caller's exposure.
ExposureCopyShallow(exp) == Factory(getMaskedImage(exp), FALSE)

\* addExposure: the copy of the exposure's masked image that is normalized.
ExposureCopy(exp) == Factory(getMaskedImage(exp), TRUE)

\* A bug: the copy is not normalized.
NormalizeSkipped(mi, scaleFac) == mi

\* addExposure: maskedImage *= scaleFac
Normalize(mi, scaleFac) == ScaleMaskedImage(mi, scaleFac)

\* A bug: the weight factor is dropped.
ComputeWeightNoFactor(self, mi, weightFactor) ==
    LET stat == makeStatistics(mi.variance, mi.mask, self.badPixelMask, self.emptyStatsNaN)
    IN  IF stat.raised \/ stat.value = Zero
        THEN [raised |-> TRUE, weight |-> NaN]
        ELSE [raised |-> FALSE, weight |-> RDiv(Flt(1), stat.value)]

\* addExposure: weight = weightFactor / float(meanVar); Python raises
\* ZeroDivisionError on a zero divisor, and divides by anything else.
ComputeWeight(self, mi, weightFactor) ==
    LET stat == makeStatistics(mi.variance, mi.mask, self.badPixelMask, self.emptyStatsNaN)
        meanVar == stat.value
    IN  IF stat.raised \/ meanVar = Zero
        THEN [raised |-> TRUE, weight |-> NaN]
        ELSE [raised |-> FALSE, weight |-> RDiv(Flt(weightFactor), meanVar)]

\* A bug: no bad pixel mask handed to addToCoadd.
AccumulateNoBadMask(self, mi, weight) ==
    addToCoadd(self.coadd, self.weightMap, mi, 0, weight)

\* A bug: the exposure is added to new, empty images, forgetting the earlier ones.
AccumulateIntoNew(self, mi, weight) ==
    addToCoadd(NewCoadd({}, FALSE).coadd, NewCoadd({}, FALSE).weightMap, mi,
               self.badPixelMask, weight)

\* addExposure: the call of addToCoadd
Accumulate(self, mi, weight) ==
    addToCoadd(self.coadd, self.weightMap, mi, self.badPixelMask, weight)

\* A bug: weight 0 reported when nothing overlaps.
ReturnValueZeroWeight(overlapBBox, weight) ==
    [overlapBBox |-> overlapBBox, weight |-> IF IsEmptyBox(overlapBBox) THEN Zero ELSE weight]

\* addExposure: return overlapBBox, weight
ReturnValue(overlapBBox, weight) == [overlapBBox |-> overlapBBox, weight |-> weight]

\* Coadd.addExposure(exposure, weightFactor): the Coadd and the caller's exposure
\* after the call, whether it raised, and what it returned.
addExposure(self, exp, weightFactor) ==
    LET copy     == ExposureCopy(exp)
        mi       == Normalize(copy.mi, ScaleFac(exp))
        expAfter == IF copy.aliased
                    THEN [exp EXCEPT !.image = mi.image, !.variance = mi.variance]
                    ELSE exp
        w        == ComputeWeight(self, mi, weightFactor)
        acc      == Accumulate(self, mi, w.weight)
    IN  IF w.raised
        THEN [self |-> self, exposure |-> expAfter, raised |-> TRUE,
              ret |-> ReturnValue(EmptyBox, NaN)]
        ELSE [self |-> [self EXCEPT !.coadd = acc.coadd, !.weightMap = acc.weightMap],
              exposure |-> expAfter, raised |-> FALSE,
              ret |-> ReturnValue(acc.overlapBBox, w.weight)]

\* A bug: a shallow copy, so that getCoadd scales the coadd itself.
CoaddCopyShallow(self) == Factory(self.coadd, FALSE)

\* getCoadd: the copy of the coadd's masked image that is scaled.
CoaddCopy(self) == Factory(self.coadd, TRUE)

\* A bug: the edge pixels are not set.
SetEdgePixelsSkipped(mi, wm) == mi

\* getCoadd: utilsLib.setCoaddEdgeBits(scaledMaskedImage.getMask(), self._weightMap)
SetEdgePixels(mi, wm) == [mi EXCEPT !.mask = setCoaddEdgeBits(mi.mask, wm)]

\* Coadd.getCoadd(): the Coadd after the call and the masked image returned.
getCoadd(self) ==
    LET copy   == CoaddCopy(self)
        edged  == SetEdgePixels(copy.mi, self.weightMap)
        scaled == DivideMaskedImage(edged, self.weightMap)
    IN  [self |-> IF copy.aliased THEN [self EXCEPT !.coadd = scaled] ELSE self,
         out  |-> scaled]

\* Coadd.getWeightMap()
getWeightMap(self) == self.weightMap

\* Coadd.getBadPixelMask()
getBadPixelMask(self) == self.badPixelMask

-----------------------------------------------------------------------------
(* The caller's steps *)

\* One caller, no other thread.
NoThreads == <<>>

Init ==
    \E planes \in BadMaskPlanesChoices, nanWhenEmpty \in BOOLEAN :
        LET new == NewCoadd(planes, nanWhenEmpty)
        IN  /\ badPixelMask = new.badPixelMask
            /\ emptyStatsNaN = new.emptyStatsNaN
            /\ coadd = new.coadd
            /\ weightMap = new.weightMap
            /\ exposure = NoExposure
            /\ result = [op |-> "init"]
            /\ added = EmptyBag
            /\ interpreterLock = TRUE
            /\ threads = NoThreads

\* coadd.addExposure(exp, weightFactor), the call recorded in added
CallAddExposure(exp, weightFactor, sameObject) ==
    \E r \in {addExposure(Self, exp, weightFactor)} :
        /\ coadd' = r.self.coadd
        /\ weightMap' = r.self.weightMap
        /\ exposure' = r.exposure
        /\ result' = [op |-> "addExposure", d |-> exp.id, weightFactor |-> weightFactor,
                      sameObject |-> sameObject, raised |-> r.raised, ret |-> r.ret]
        /\ added' = added (+) SetToBag({[d |-> exp.id, weightFactor |-> weightFactor,
                                         raised |-> r.raised, weight |-> r.ret.weight]})
        /\ UNCHANGED <<badPixelMask, emptyStatsNaN, interpreterLock, threads>>

\* The caller loads an exposure and adds it.
AddExposure(d, weightFactor) ==
    /\ BagCardinality(added) < MaxAdds
    /\ CallAddExposure(BuildExposure(d), weightFactor, FALSE)

\* The caller adds the exposure object it added last once more.
AddExposureAgain(weightFactor) ==
    /\ BagCardinality(added) < MaxAdds
    /\ exposure # NoExposure
    /\ CallAddExposure(exposure, weightFactor, TRUE)

\* coadd.getCoadd()
GetCoadd ==
    \E r \in {getCoadd(Self)} :
        /\ coadd' = r.self.coadd
        /\ weightMap' = r.self.weightMap
        /\ result' = [op |-> "getCoadd", ret |-> r.out]
        /\ UNCHANGED <<badPixelMask, emptyStatsNaN, exposure, added, interpreterLock, threads>>

Next ==
    \/ \E d \in Descriptors, weightFactor \in WeightFactors : AddExposure(d, weightFactor)
    \/ \E weightFactor \in WeightFactors : AddExposureAgain(weightFactor)
    \/ GetCoadd

Spec == Init /\ [][Next]_vars

-----------------------------------------------------------------------------
(* What the properties speak of *)

\* The calls made so far, each once.
Calls == BagToSet(added)

\* The pixels of the coadd the exposure described by d covers.
OverlapPixels(d) == PixelsOf(Clip(CoaddBBox, d.bbox))

MaskAt(d, p) == IF p \in FlaggedPixels(d) THEN d.flagBits ELSE 0

ValueAt(d, p) == IF p \in FlaggedPixels(d) THEN d.flagValue ELSE d.value

\* 1 / (the flux of the exposure at the coadd's zero point)
ScaleOf(d) == Norm(CoaddFluxMag0, d.fluxMag0)

\* The pixel value of the exposure scaled to the coadd's zero point.
NormalizedValueAt(d, p) == RMul(Flt(ValueAt(d, p)), ScaleOf(d))

IsBadAt(d, p) == BitAnd(MaskAt(d, p), badPixelMask) # 0

HasEdge(m) == BitAnd(m, EdgeMask) # 0

\* Call e added exposure signal at pixel p.
Contributes(e, p) == ~e.raised /\ p \in OverlapPixels(e.d) /\ ~IsBadAt(e.d, p)

\* The sum of f(e) over the calls of S, each as often as it was made.
RECURSIVE SumCalls(_, _)
SumCalls(f, S) ==
    IF S = {} THEN Zero
    ELSE LET e == CHOOSE x \in S : TRUE
         IN  RAdd(RMul(Flt(CopiesIn(e, added)), f[e]), SumCalls(f, S \ {e}))

SumOfWeights(p) ==
    LET S == {e \in Calls : Contributes(e, p)}
    IN  SumCalls([e \in S |-> e.weight], S)

SumOfWeightedValues(p) ==
    LET S == {e \in Calls : Contributes(e, p)}
    IN  SumCalls([e \in S |-> RMul(e.weight, NormalizedValueAt(e.d, p))], S)

-----------------------------------------------------------------------------
-----------------------------------------------------------------------------
\* The 3 x 3 scenario: exposure 1 (full grid, value 10, variance 4) and exposure 2
\* (left column, value 20, variance 4), each added once with weightFactor 1.
ScenarioExposure1 == Plain(FullBox, 10, 4, 100)

ScenarioExposure2 == Plain(LeftBox, 20, 4, 100)

InScenario(ds) ==
    /\ BagCardinality(added) = Cardinality(ds)
    /\ {<<e.d, e.weightFactor>> : e \in Calls} = {<<d, 1>> : d \in ds}

LeftColumn == {p \in CoaddPixels : p[1] = CoaddBBox.minX}

\* C2  Weighted average: the weight map is the sum of the weights of the exposures
\* that contributed to the pixel, the coadd's sum their weighted normalized values,
\* and where the weight is positive getCoadd returns their quotient; in the 3 x 3
\* scenario the left column ends at weight 1/2, sum 15/2, value 15, the rest at 10.
C2_WeightedAverage ==
    /\ \A p \in CoaddPixels :
          /\ weightMap[p] = SumOfWeights(p)
          /\ coadd.image[p] = SumOfWeightedValues(p)
          /\ (result.op = "getCoadd" /\ RPositive(weightMap[p])) =>
                result.ret.image[p] = RDiv(SumOfWeightedValues(p), SumOfWeights(p))
    /\ InScenario({ScenarioExposure1}) =>
          \A p \in CoaddPixels :
              /\ weightMap[p] = Norm(1, 4)
              /\ coadd.image[p] = Norm(5, 2)
              /\ result.op = "getCoadd" =>
                    result.ret.image[p] = Flt(10) /\ ~HasEdge(result.ret.mask[p])
    /\ InScenario({ScenarioExposure1, ScenarioExposure2}) =>
          \A p \in CoaddPixels :
              /\ weightMap[p] = IF p \in LeftColumn THEN Norm(1, 2) ELSE Norm(1, 4)
              /\ coadd.image[p] = IF p \in LeftColumn THEN Norm(15, 2) ELSE Norm(5, 2)
              /\ result.op = "getCoadd" =>
                    result.ret.image[p] = IF p \in LeftColumn THEN Flt(15) ELSE Flt(10)

\* getCoadd returned after the two exposures of the scenario were added.
C2_Witness ==
    /\ InScenario({ScenarioExposure1, ScenarioExposure2})
    /\ result.op = "getCoadd"

-----------------------------------------------------------------------------
\* C3  Masked-pixel exclusion: an addExposure call leaves sum and weightMap as they
\* were at every pixel of the overlap where the exposure's mask intersects the
\* bad pixel mask.
C3_MaskedPixelExclusion ==
    [][ (added' # added) =>
            \A p \in OverlapPixels(result'.d) :
                IsBadAt(result'.d, p) =>
                    coadd'.image[p] = coadd.image[p] /\ weightMap'[p] = weightMap[p] ]_vars

\* The last call added an exposure with a bad-masked pixel p, of another value and
\* variance than the rest, and a good pixel q: q received the weight, p none.
C3_Witness ==
    /\ result.op = "addExposure" /\ ~result.raised
    /\ BagCardinality(added) = 1
    /\ \E p \in OverlapPixels(result.d), q \in OverlapPixels(result.d) :
          /\ IsBadAt(result.d, p) /\ ValueAt(result.d, p) # ValueAt(result.d, q)
          /\ ~IsBadAt(result.d, q)
          /\ weightMap[q] = result.ret.weight /\ weightMap[p] = Zero

-----------------------------------------------------------------------------
\* A Coadd constructed like this one, with nothing added yet.
NewSelf == [NewCoadd({}, emptyStatsNaN) EXCEPT !.badPixelMask = badPixelMask]

\* The calls of bag B made on self in one fixed order: the Coadd after them, and
\* whether each raised and returned the weight as the call recorded in B did.
RECURSIVE ReplayBag(_, _)
ReplayBag(self, B) ==
    IF BagToSet(B) = {} THEN [self |-> self, sameReturns |-> TRUE]
    ELSE LET e    == CHOOSE x \in BagToSet(B) : TRUE
             r    == addExposure(self, BuildExposure(e.d), e.weightFactor)
             rest == ReplayBag(r.self, B (-) SetToBag({e}))
         IN  [self |-> rest.self,
              sameReturns |-> /\ rest.sameReturns
                              /\ r.raised = e.raised /\ r.ret.weight = e.weight]

\* C4  Order independence: sum, weightMap and the cumulative mask are those of
\* the calls made so far replayed in one fixed order, whatever the order they
\* were made in, and each call returned the weight it returns in the replay.
C4_OrderIndependence ==
    \E r \in {ReplayBag(NewSelf, added)} :
        coadd = r.self.coadd /\ weightMap = r.self.weightMap /\ r.sameReturns

\* Two different exposures were added, the one added last being the one the
\* replay takes first, and both gave signal to a pixel p.
C4_Witness ==
    /\ result.op = "addExposure"
    /\ \E e1 \in Calls, e2 \in Calls, p \in CoaddPixels :
          /\ e1.d # e2.d /\ Contributes(e1, p) /\ Contributes(e2, p)
          /\ NormalizedValueAt(e1.d, p) # NormalizedValueAt(e2.d, p)
          /\ e1.weight # e2.weight
          /\ result.d = e1.d /\ e1 = CHOOSE x \in Calls : TRUE

-----------------------------------------------------------------------------
VarianceAt(d, p) == IF p \in FlaggedPixels(d) THEN d.flagVariance ELSE d.variance

\* The one call made so far.
TheCall == CHOOSE e \in Calls : TRUE

\* getCoadd returned, after one exposure covering the whole coadd was added to
\* the new Coadd with weightFactor 1.
IdentityCase ==
    /\ result.op = "getCoadd"
    /\ BagCardinality(added) = 1
    /\ ~TheCall.raised /\ TheCall.weightFactor = 1
    /\ OverlapPixels(TheCall.d) = CoaddPixels

-----------------------------------------------------------------------------
\* The exposure has the same variance d.variance > 0 at every pixel and no mask
\* bit set anywhere.
UniformExposure(d) ==
    /\ d.variance > 0
    /\ \A p \in PixelsOf(d.bbox) : VarianceAt(d, p) = d.variance /\ MaskAt(d, p) = 0

\* C6  Weight formula, as amended: for an exposure of constant variance v > 0
\* without masked pixels addExposure returns weightFactor / (v * scaleFac^2),
\* scaleFac = 1 / (the exposure's flux at the coadd's zero point).
C6_WeightFormula ==
    \A e \in Calls :
        UniformExposure(e.d) =>
            /\ ~e.raised
            /\ e.weight = RDiv(Flt(e.weightFactor),
                               RMul(Flt(e.d.variance), Sq(ScaleOf(e.d))))

\* C6 as stated: the weight is weightFactor / v whatever the calibration.
C6_WeightFormulaAnyCalibration ==
    \A e \in Calls :
        UniformExposure(e.d) =>
            ~e.raised /\ e.weight = RDiv(Flt(e.weightFactor), Flt(e.d.variance))

\* A uniform exposure with scale factor 2 was added with weightFactor 2.
C6_Witness ==
    \E e \in Calls :
        /\ UniformExposure(e.d) /\ ScaleOf(e.d) = Flt(2) /\ e.weightFactor = 2
        /\ ~e.raised /\ e.weight = Norm(2, 4 * e.d.variance)

-----------------------------------------------------------------------------
\* The exposure of descriptor d gives no usable clipped mean variance: the bad
\* pixel mask rejects every pixel of it, or its variance is nowhere positive.
DegenerateVariance(d) ==
    \/ \A p \in PixelsOf(d.bbox) : IsBadAt(d, p)
    \/ \A p \in PixelsOf(d.bbox) : VarianceAt(d, p) <= 0

\* The calls that did not raise.
Succeeded ==
    [e \in {x \in Calls : ~x.raised} |-> CopiesIn(e, added)]

\* C7  Degenerate variance is rejected: a call with an exposure of degenerate
\* variance raises; no call that returns has added a negative, infinite or NaN
\* weight; and sum, weightMap and mask are those of the calls that returned.
C7_DegenerateVarianceRejected ==
    /\ \A e \in Calls : DegenerateVariance(e.d) => e.raised
    /\ \A e \in Calls : ~e.raised => IsFinite(e.weight) /\ RPositive(e.weight)
    /\ \E r \in {ReplayBag(NewSelf, Succeeded)} :
          coadd = r.self.coadd /\ weightMap = r.self.weightMap

-----------------------------------------------------------------------------
\* C8  getCoadd is a pure read: a getCoadd call leaves sum, weightMap and the
\* cumulative mask as they were, returns what the getCoadd call before it
\* returned when nothing was added in between, and returns what getCoadd returns
\* after the addExposure calls made so far alone, replayed on a new Coadd.
C8_GetCoaddPureRead ==
    [][ (result'.op = "getCoadd") =>
            /\ coadd' = coadd /\ weightMap' = weightMap
            /\ (result.op = "getCoadd") => (result'.ret = result.ret)
            /\ result'.ret = getCoadd(ReplayBag(NewSelf, added).self).out ]_vars

\* getCoadd returned after two calls of addExposure, an EDGE bit at a pixel p
\* where the cumulative mask has none, and at a pixel q another value than the sum.
C8_Witness ==
    /\ result.op = "getCoadd"
    /\ BagCardinality(added) = 2
    /\ \E p \in CoaddPixels, q \in CoaddPixels :
          /\ HasEdge(result.ret.mask[p]) /\ ~HasEdge(coadd.mask[p])
          /\ RPositive(weightMap[q]) /\ result.ret.image[q] # coadd.image[q]

-----------------------------------------------------------------------------
\* C9  addExposure does not mutate its argument: after a call the caller's
\* exposure is as it was loaded; the call raises or returns the weight as every
\* earlier call with this exposure and weightFactor did; and it adds that weight,
\* and that weight times the exposure's normalized values, where it contributes.
C9_ArgumentNotMutated ==
    [][ (added' # added) =>
            /\ exposure' = BuildExposure(result'.d)
            /\ \A e \in Calls :
                  (e.d = result'.d /\ e.weightFactor = result'.weightFactor) =>
                      e.raised = result'.raised /\ e.weight = result'.ret.weight
            /\ ~result'.raised =>
                  \A p \in CoaddPixels :
                      IF p \in OverlapPixels(result'.d) /\ ~IsBadAt(result'.d, p)
                      THEN /\ weightMap'[p] = RAdd(weightMap[p], result'.ret.weight)
                           /\ coadd'.image[p] =
                                 RAdd(coadd.image[p],
                                      RMul(result'.ret.weight,
                                           NormalizedValueAt(result'.d, p)))
                      ELSE /\ weightMap'[p] = weightMap[p]
                           /\ coadd'.image[p] = coadd.image[p] ]_vars

\* The same exposure object, of scale factor 2, was added twice with the same
\* weightFactor, and a pixel has twice its weight.
C9_Witness ==
    /\ result.op = "addExposure" /\ result.sameObject /\ ~result.raised
    /\ ScaleOf(result.d) = Flt(2)
    /\ BagCardinality(added) = 2
    /\ \E e \in Calls, p \in CoaddPixels :
          /\ e.d = result.d /\ CopiesIn(e, added) = 2
          /\ weightMap[p] = RMul(Flt(2), e.weight)

-----------------------------------------------------------------------------
\* C10  Empty overlap, as amended: a call with an exposure that does not overlap
\* the coadd leaves sum, weightMap and mask unchanged and, when it returns,
\* returns a zero-area box and the weight it computed, which is not 0:
\* weightFactor / (v * scaleFac^2) for an exposure of constant variance v.
C10_EmptyOverlap ==
    [][ (added' # added /\ OverlapPixels(result'.d) = {}) =>
            /\ coadd' = coadd /\ weightMap' = weightMap
            /\ ~result'.raised =>
                  /\ IsEmptyBox(result'.ret.overlapBBox)
                  /\ result'.ret.weight # Zero
                  /\ UniformExposure(result'.d) =>
                        result'.ret.weight =
                            RDiv(Flt(result'.weightFactor),
                                 RMul(Flt(result'.d.variance), Sq(ScaleOf(result'.d)))) ]_vars

\* C10 as stated: the weight returned is 0.
C10_EmptyOverlapZeroWeight ==
    [][ (added' # added /\ OverlapPixels(result'.d) = {}) =>
            /\ coadd' = coadd /\ weightMap' = weightMap
            /\ ~result'.raised =>
                  /\ IsEmptyBox(result'.ret.overlapBBox)
                  /\ result'.ret.weight = Zero ]_vars

\* An exposure outside the coadd was added after one inside it: a zero-area
\* box and the weight 1/4 came back.
C10_Witness ==
    /\ result.op = "addExposure" /\ ~result.raised
    /\ OverlapPixels(result.d) = {}
    /\ BagCardinality(added) = 2
    /\ \E p \in CoaddPixels : RPositive(weightMap[p])
    /\ IsEmptyBox(result.ret.overlapBBox)
    /\ result.ret.weight = Norm(1, 4)

-----------------------------------------------------------------------------
(* Threads calling one Coadd at once *)

\* Two threads that each call addExposure once and one that calls getCoadd,
\* all on the same Coadd. Coadd takes no lock anywhere (coadd.py has none), so
\* the threads interleave between the statements of addExposure and getCoadd;
\* within a library call they interleave unless the build runs library calls
\* under the interpreter's lock.
Adders == {"a1", "a2"}

Reader == "r"

\* covers the coadd's lower left pixel only
CornerBox == Box(-1, -1, 2, 2)

\* The exposures the two threads add: both cover the coadd's pixel <<0, 0>>.
ConcDescriptors == {Plain(CornerBox, 10, 4, 100), Plain(LeftBox, 20, 4, 100)}

NoImage == [bbox |-> EmptyBox]

\* A thread about to call addExposure(BuildExposure(d)) with the default weightFactor.
AdderStart(d) ==
    [pc |-> "start", d |-> d, weightFactor |-> 1, maskedImage |-> NoImage,
     weight |-> NaN, raised |-> FALSE, overlapBBox |-> EmptyBox, todo |-> <<>>, tmp |-> Zero]

\* A thread about to call getCoadd().
ReaderStart == [pc |-> "start", scaledMaskedImage |-> NoImage]

ConcInit ==
    \E planes \in BadMaskPlanesChoices, nanWhenEmpty \in BOOLEAN, d1 \in ConcDescriptors,
       d2 \in ConcDescriptors :
        LET new == NewCoadd(planes, nanWhenEmpty)
        IN  /\ badPixelMask = new.badPixelMask
            /\ emptyStatsNaN = new.emptyStatsNaN
            /\ coadd = new.coadd
            /\ weightMap = new.weightMap
            /\ exposure = NoExposure
            /\ result = [op |-> "init"]
            /\ added = EmptyBag
            /\ interpreterLock \in BOOLEAN
            /\ threads = [t \in Adders \cup {Reader} |->
                            IF t = "a1" THEN AdderStart(d1)
                            ELSE IF t = "a2" THEN AdderStart(d2)
                            ELSE ReaderStart]

\* The pixels of S row by row, the order addToCoadd visits them in.
RECURSIVE PixelSeq(_)
PixelSeq(S) ==
    IF S = {} THEN <<>>
    ELSE LET p == CHOOSE q \in S :
                    \A o \in S : q[2] < o[2] \/ (q[2] = o[2] /\ q[1] <= o[1])
         IN  <<p>> \o PixelSeq(S \ {p})

\* addExposure up to the call of addToCoadd: the private copy is normalized
\* and the weight computed; these statements touch no state of the Coadd.
AddExposureBegin(t) ==
    /\ threads[t].pc = "start"
    /\ \E exp \in {BuildExposure(threads[t].d)} :
         \E mi \in {Normalize(ExposureCopy(exp).mi, ScaleFac(exp))} :
           \E w \in {ComputeWeight(Self, mi, threads[t].weightFactor)} :
              threads' = [threads EXCEPT ![t].pc = IF w.raised THEN "return" ELSE "call",
                                         ![t].maskedImage = mi,
                                         ![t].weight = w.weight,
                                         ![t].raised = w.raised]
    /\ UNCHANGED <<badPixelMask, emptyStatsNaN, coadd, weightMap, exposure, result, added,
                   interpreterLock>>

\* addExposure: the call of addToCoadd, run under the interpreter's lock: no
\* other thread runs until it has returned.
AddToCoaddLocked(t) ==
    /\ threads[t].pc = "call"
    /\ interpreterLock
    /\ \E acc \in {Accumulate(Self, threads[t].maskedImage, threads[t].weight)} :
          /\ coadd' = acc.coadd
          /\ weightMap' = acc.weightMap
          /\ threads' = [threads EXCEPT ![t].pc = "return",
                                        ![t].overlapBBox = acc.overlapBBox]
    /\ UNCHANGED <<badPixelMask, emptyStatsNaN, exposure, result, added, interpreterLock>>

\* addExposure: the call of addToCoadd, run without the lock: it finds the
\* overlap and then visits its pixels one by one.
AddToCoaddEnter(t) ==
    /\ threads[t].pc = "call"
    /\ ~interpreterLock
    /\ \E overlapBBox \in {Clip(CoaddBBox, threads[t].maskedImage.bbox)} :
          threads' = [threads EXCEPT
                        ![t].pc = IF IsEmptyBox(overlapBBox) THEN "return" ELSE "loadSum",
                        ![t].overlapBBox = overlapBBox,
                        ![t].todo = PixelSeq(PixelsOf(overlapBBox))]
    /\ UNCHANGED <<badPixelMask, emptyStatsNaN, coadd, weightMap, exposure, result, added,
                   interpreterLock>>

\* The pixel thread t's addToCoadd is at.
PixelOf(t) == Head(threads[t].todo)

\* The thread's addToCoadd goes on to its next pixel, or returns after the last.
NextPixel(t, th) ==
    [th EXCEPT ![t].todo = Tail(@),
               ![t].pc = IF Len(threads[t].todo) = 1 THEN "return" ELSE "loadSum"]

\* The exposure's mask bits at the pixel, without the reserved ones, are ORed in.
OrMask(t) ==
    [coadd EXCEPT !.mask[PixelOf(t)] =
        BitOr(@, BitClear(threads[t].maskedImage.mask[PixelOf(t)], ReservedMask))]

\* addToCoadd at a pixel, sum[p] += weight * value[p]: sum[p] is read. At a
\* pixel with a bit of the bad pixel mask only the mask is updated.
LoadSum(t) ==
    /\ threads[t].pc = "loadSum"
    /\ IF BitAnd(threads[t].maskedImage.mask[PixelOf(t)], badPixelMask) # 0
       THEN /\ coadd' = OrMask(t)
            /\ threads' = NextPixel(t, threads)
       ELSE /\ coadd' = coadd
            /\ threads' = [threads EXCEPT ![t].pc = "storeSum",
                                          ![t].tmp = coadd.image[PixelOf(t)]]
    /\ UNCHANGED <<badPixelMask, emptyStatsNaN, weightMap, exposure, result, added,
                   interpreterLock>>

\* sum[p] += weight * value[p]: the sum is written back.
StoreSum(t) ==
    /\ threads[t].pc = "storeSum"
    /\ coadd' = [coadd EXCEPT !.image[PixelOf(t)] =
                    RAdd(threads[t].tmp,
                         RMul(threads[t].maskedImage.image[PixelOf(t)], threads[t].weight))]
    /\ threads' = [threads EXCEPT ![t].pc = "loadWeight"]
    /\ UNCHANGED <<badPixelMask, emptyStatsNaN, weightMap, exposure, result, added,
                   interpreterLock>>

\* weightMap[p] += weight: weightMap[p] is read.
LoadWeight(t) ==
    /\ threads[t].pc = "loadWeight"
    /\ threads' = [threads EXCEPT ![t].pc = "storeWeight", ![t].tmp = weightMap[PixelOf(t)]]
    /\ UNCHANGED <<badPixelMask, emptyStatsNaN, coadd, weightMap, exposure, result, added,
                   interpreterLock>>

\* weightMap[p] += weight: the weight is written back; then the mask bits.
StoreWeight(t) ==
    /\ threads[t].pc = "storeWeight"
    /\ weightMap' = [weightMap EXCEPT ![PixelOf(t)] = RAdd(threads[t].tmp, threads[t].weight)]
    /\ coadd' = OrMask(t)
    /\ threads' = NextPixel(t, threads)
    /\ UNCHANGED <<badPixelMask, emptyStatsNaN, exposure, result, added, interpreterLock>>

\* addExposure: return overlapBBox, weight (or the exception leaves the call).
AddExposureReturn(t) ==
    /\ threads[t].pc = "return"
    /\ threads' = [threads EXCEPT ![t].pc = "done"]
    /\ added' = added (+) SetToBag({[d |-> threads[t].d,
                                     weightFactor |-> threads[t].weightFactor,
                                     raised |-> threads[t].raised,
                                     weight |-> threads[t].weight]})
    /\ UNCHANGED <<badPixelMask, emptyStatsNaN, coadd, weightMap, exposure, result,
                   interpreterLock>>

\* getCoadd: scaledMaskedImage = coaddMaskedImage.Factory(coaddMaskedImage, True)
GetCoaddCopy ==
    /\ threads[Reader].pc = "start"
    /\ threads' = [threads EXCEPT ![Reader].pc = "edge",
                                  ![Reader].scaledMaskedImage = CoaddCopy(Self).mi]
    /\ UNCHANGED <<badPixelMask, emptyStatsNaN, coadd, weightMap, exposure, result, added,
                   interpreterLock>>

\* getCoadd: utilsLib.setCoaddEdgeBits(scaledMaskedImage.getMask(), self._weightMap)
GetCoaddSetEdge ==
    /\ threads[Reader].pc = "edge"
    /\ threads' = [threads EXCEPT ![Reader].pc = "divide",
                                  ![Reader].scaledMaskedImage = SetEdgePixels(@, weightMap)]
    /\ UNCHANGED <<badPixelMask, emptyStatsNaN, coadd, weightMap, exposure, result, added,
                   interpreterLock>>

\* getCoadd: scaledMaskedImage /= self._weightMap, and the return of the result
GetCoaddDivide ==
    /\ threads[Reader].pc = "divide"
    /\ \E scaled \in {DivideMaskedImage(threads[Reader].scaledMaskedImage, weightMap)} :
          /\ threads' = [threads EXCEPT ![Reader].pc = "done",
                                        ![Reader].scaledMaskedImage = scaled]
          /\ result' = [op |-> "getCoadd", ret |-> scaled]
    /\ UNCHANGED <<badPixelMask, emptyStatsNaN, coadd, weightMap, exposure, added,
                   interpreterLock>>

ConcNext ==
    \/ \E t \in Adders : AddExposureBegin(t)
    \/ \E t \in Adders : AddToCoaddLocked(t)
    \/ \E t \in Adders : AddToCoaddEnter(t)
    \/ \E t \in Adders : LoadSum(t)
    \/ \E t \in Adders : StoreSum(t)
    \/ \E t \in Adders : LoadWeight(t)
    \/ \E t \in Adders : StoreWeight(t)
    \/ \E t \in Adders : AddExposureReturn(t)
    \/ GetCoaddCopy
    \/ GetCoaddSetEdge
    \/ GetCoaddDivide

ConcSpec == ConcInit /\ [][ConcNext]_vars

\* The addExposure calls of the threads of sequence s made one after the other on self.
RECURSIVE AfterCalls(_, _)
AfterCalls(self, s) ==
    IF s = <<>> THEN self
    ELSE AfterCalls(addExposure(self, BuildExposure(threads[Head(s)].d),
                                threads[Head(s)].weightFactor).self, Tail(s))

\* The sequential orders of the two calls, and the beginnings of these orders.
SequentialOrders == {<<"a1", "a2">>, <<"a2", "a1">>}

SequentialPrefixes == {<<>>, <<"a1">>, <<"a2">>} \cup SequentialOrders

AllReturned == \A t \in Adders : threads[t].pc = "done"

\* C11  Atomic add under concurrency: once the concurrent addExposure calls
\* have all returned, sum, weightMap and mask are those some sequential order
\* of the calls leaves; and what a concurrent getCoadd returns is what getCoadd
\* returns after some of the calls were made in full and the others not at all,
\* so that no pixel shows a contribution in sum but not in weightMap or the
\* other way round.
C11_AtomicAdd ==
    /\ AllReturned =>
          \E s \in SequentialOrders :
             \E after \in {AfterCalls(NewSelf, s)} :
                coadd = after.coadd /\ weightMap = after.weightMap
    /\ threads[Reader].pc = "done" =>
          \E s \in SequentialPrefixes : result.ret = getCoadd(AfterCalls(NewSelf, s)).out

=============================================================================
